---- MODULE Spec2Model ----
(***************************************************************************)
(* Model of common/xdc/nDCHistoryResender.go: NDCHistoryResenderImpl.      *)
(* One call of SendSingleWorkflowHistory is a process that walks a paging  *)
(* iterator over the remote raw history, applies every batch through the   *)
(* injected replication function and, on an entity-not-exists result of    *)
(* the apply step, consults the current-execution invariant.               *)
(***************************************************************************)
EXTENDS Integers, Sequences, FiniteSets, TLC

\* ------------------------------------------------------------------ bounds
NumCalls == 3        \* call slots of the resender object
MaxPages == 2        \* fetch round trips the remote answers with a token
MaxBatches == 3      \* raw batches in one remote page
MaxTicks == 3        \* times the clock advances
TickStep == 20       \* seconds the clock advances by
FewPages == 2        \* pages of the remote where time or other calls interleave
FewBatches == 1      \* batches a page there

\* const resendContextTimeout = 30 * time.Second
resendContextTimeout == 30

Calls == 1 .. NumCalls

\* ------------------------------------------------------------ value spaces
DomainIDs == {"D1"}
WorkflowIDs == {"W1", "W2"}
RunIDs == {"R1"}
NilToken == <<>>
Tokens == {<<1>>, <<2>>}
\* what the per-domain duration source can return, in seconds
Durations == {-5, 0, 70}

NoErr == "nil"
EntityNotExistsError == "EntityNotExistsError"
ErrSkipTask == "ErrSkipTask"
DomainErrors == {"DomainNotFound"}
RpcErrors == {EntityNotExistsError, "RpcTimeout"}
ApplyErrors == {EntityNotExistsError, "ApplyRejected"}

WorkflowStateRunning == "Running"
CheckResultTypeFailed == "failed"
CheckResultTypeCorrupted == "corrupted"
CheckResultTypeHealthy == "healthy"
CheckResultTypeOther == ""
\* the version history the remote attaches to its page-th page: one value per
\* page, told apart from the values of the other pages
VersionHistoryOf(page) == [Items |-> <<[EventID |-> page, Version |-> 1]>>]

\* GetWorkflowExecutionRawHistoryV2Response values the remote can send as its
\* page-th page when it has already served `served` batches of this history:
\* the batches of one history are distinct blobs, numbered here in the
\* remote's order
Responses(tokens, served, page, batches) ==
    [HistoryBatches : {[i \in 1 .. n |-> served + i] : n \in 0 .. batches},
     VersionHistory : {VersionHistoryOf(page)},
     NextPageToken : tokens]

NilResponse == [HistoryBatches |-> <<>>, VersionHistory |-> [Items |-> <<>>],
                NextPageToken |-> NilToken]

VARIABLES
    hasChecker,   \* n.currentExecutionCheck != nil
    record,       \* local current-execution record per <<domainID, workflowID>>
    enabled,      \* call slots that may be entered
    pc,           \* position of each call
    args,         \* (domainID, workflowID, runID) of each call
    iter,         \* PagingIteratorImpl of each call
    cur,          \* request in flight / error being classified, per call
    ret,          \* returned error of each call
    trace,        \* collaborator invocations of each call, in order
    remote,       \* what the remote cluster holds: pages, batches a page, tokens
    rereplicationTimeout,  \* n.rereplicationTimeout: configured or nil, and its value
    now,          \* the clock, in seconds
    ctx,          \* the context of each call: its overall deadline, if any
    ctxlog        \* contexts handed to the remote RPC and to the apply function

vars == <<hasChecker, record, enabled, pc, args, iter, cur, ret, trace, remote,
          rereplicationTimeout, now, ctx, ctxlog>>

\* what no step of a call changes
config == <<hasChecker, enabled, remote, rereplicationTimeout>>

NotReturned == "-"
NoArgs == [domainID |-> "", workflowID |-> "", runID |-> ""]
NoRequest ==
    [DomainUUID |-> "", WorkflowExecution |-> [WorkflowId |-> "", RunId |-> ""],
     Events |-> 0, VersionHistoryItems |-> <<>>]
NoCur == [request |-> NoRequest, err |-> NoErr]

\* ------------------------------------------------------------- contexts
\* context.Background()
Background == [hasDeadline |-> FALSE, deadline |-> 0]

\* context.WithTimeout(parent, d) called at time t: the earlier of the
\* parent's deadline and t + d
WithTimeout(parent, t, d) ==
    [hasDeadline |-> TRUE,
     deadline |-> IF parent.hasDeadline /\ parent.deadline < t + d
                  THEN parent.deadline ELSE t + d]

\* variant: a duration of zero also bounds the call
overallContextFromZero(src, domainID, t) ==
    IF src.configured /\ src.duration[domainID] >= 0
    THEN WithTimeout(Background, t, src.duration[domainID])
    ELSE Background

\* ctx := context.Background(); if n.rereplicationTimeout != nil { ... }
overallContext(src, domainID, t) ==
    IF src.configured /\ src.duration[domainID] > 0
    THEN WithTimeout(Background, t, src.duration[domainID])
    ELSE Background

\* ctx, cancel := context.WithTimeout(ctx, resendContextTimeout)
stepContext(parent, t) == WithTimeout(parent, t, resendContextTimeout)

CtxEntry(op, t, c) == [op |-> op, at |-> t, ctx |-> c]

LogCtx(c, e) == ctxlog' = [ctxlog EXCEPT ![c] = Append(@, e)]

\* ------------------------------------------------------- paging iterator
NilIterator ==
    [pageToken |-> NilToken, pageErr |-> NoErr, pageItems |-> <<>>,
     nextPageItemIndex |-> 0]

getNextPage(items, token, err) ==
    IF err = NoErr
    THEN [pageToken |-> token, pageErr |-> NoErr, pageItems |-> items,
          nextPageItemIndex |-> 0]
    ELSE [pageToken |-> NilToken, pageErr |-> err, pageItems |-> <<>>,
          nextPageItemIndex |-> 0]

\* ------------------------------------------------------- resender helpers
historyBatch(versionHistory, history) ==
    [versionHistory |-> versionHistory, rawEventBatch |-> history]

\* variant: a failed getHistory is reported as an empty last page
getPaginationFnSwallowsError(response, err) ==
    IF err # NoErr
    THEN <<<<>>, NilToken, NoErr>>
    ELSE <<[i \in 1 .. Len(response.HistoryBatches) |->
               historyBatch(response.VersionHistory, response.HistoryBatches[i])],
           response.NextPageToken, NoErr>>

\* variant: the batches of a page come out last first
getPaginationFnReversed(response, err) ==
    IF err # NoErr
    THEN <<<<>>, NilToken, err>>
    ELSE LET n == Len(response.HistoryBatches)
         IN  <<[i \in 1 .. n |->
                   historyBatch(response.VersionHistory,
                                response.HistoryBatches[n + 1 - i])],
               response.NextPageToken, NoErr>>

\* variant: the fan-out loop starts one element late
getPaginationFnSkipsFirst(response, err) ==
    IF err # NoErr
    THEN <<<<>>, NilToken, err>>
    ELSE LET rest == IF response.HistoryBatches = <<>> THEN <<>>
                     ELSE Tail(response.HistoryBatches)
         IN  <<[i \in 1 .. Len(rest) |->
                   historyBatch(response.VersionHistory, rest[i])],
               response.NextPageToken, NoErr>>

\* variant: the remote's end-of-data is handed on as one more page to fetch
getPaginationFnNeverEnds(response, err) ==
    IF err # NoErr
    THEN <<<<>>, NilToken, err>>
    ELSE <<[i \in 1 .. Len(response.HistoryBatches) |->
               historyBatch(response.VersionHistory, response.HistoryBatches[i])],
           IF Len(response.NextPageToken) = 0 THEN <<1>> ELSE response.NextPageToken,
           NoErr>>

\* the closure returned by getPaginationFn, applied to getHistory's result
getPaginationFn(response, err) ==
    IF err # NoErr
    THEN <<<<>>, NilToken, err>>
    ELSE <<[i \in 1 .. Len(response.HistoryBatches) |->
               historyBatch(response.VersionHistory, response.HistoryBatches[i])],
           response.NextPageToken, NoErr>>

\* variant: workflow id and run id change places
createReplicationRawRequestSwapsIDs(domainID, workflowID, runID, historyBlob, items) ==
    [DomainUUID |-> domainID,
     WorkflowExecution |-> [WorkflowId |-> runID, RunId |-> workflowID],
     Events |-> historyBlob,
     VersionHistoryItems |-> items]

\* variant: the workflow id of the request is left unset
createReplicationRawRequestDropsWorkflow(domainID, workflowID, runID, historyBlob, items) ==
    [DomainUUID |-> domainID,
     WorkflowExecution |-> [WorkflowId |-> "", RunId |-> runID],
     Events |-> historyBlob,
     VersionHistoryItems |-> items]

createReplicationRawRequest(domainID, workflowID, runID, historyBlob, items) ==
    [DomainUUID |-> domainID,
     WorkflowExecution |-> [WorkflowId |-> workflowID, RunId |-> runID],
     Events |-> historyBlob,
     VersionHistoryItems |-> items]

\* variant: every request starts from the beginning
getHistoryTokenNil(token) == NilToken

\* the request getHistory sends: the token it was handed goes out as is
getHistoryToken(token) == token

CurrentExecution(domainID, workflowID) ==
    [DomainID |-> domainID, WorkflowID |-> workflowID,
     State |-> WorkflowStateRunning]

Event(op, arg, res) == [op |-> op, arg |-> arg, res |-> res]

Log(c, e) == trace' = [trace EXCEPT ![c] = Append(@, e)]

Log2(c, e1, e2) == trace' = [trace EXCEPT ![c] = Append(Append(@, e1), e2)]

Return(c, err) ==
    /\ pc' = [pc EXCEPT ![c] = "done"]
    /\ ret' = [ret EXCEPT ![c] = err]

\* ------------------------------------------------------------------ Init
TypeOK ==
    /\ hasChecker \in BOOLEAN
    /\ enabled \subseteq Calls
    /\ pc \in [Calls -> {"idle", "getNextPage", "rpc", "loop", "apply",
                         "applying", "gate", "fix", "done"}]
    /\ now \in 0 .. MaxTicks * TickStep
    /\ \A c \in Calls : ctx[c].hasDeadline \in BOOLEAN

InitCommon ==
    /\ hasChecker \in BOOLEAN
    /\ record \in [DomainIDs \X WorkflowIDs -> {"healthy", "corrupted"}]
    /\ pc = [c \in Calls |-> "idle"]
    /\ args = [c \in Calls |-> NoArgs]
    /\ iter = [c \in Calls |-> NilIterator]
    /\ cur = [c \in Calls |-> NoCur]
    /\ ret = [c \in Calls |-> NotReturned]
    /\ trace = [c \in Calls |-> <<>>]
    /\ now = 0
    /\ ctx = [c \in Calls |-> Background]
    /\ ctxlog = [c \in Calls |-> <<>>]

NoTimeoutSource == [configured |-> FALSE, duration |-> [d \in DomainIDs |-> 0]]

\* one call at a time, the remote holding up to MaxPages pages; no
\* per-domain duration is configured and the clock stands still
Init ==
    /\ InitCommon
    /\ enabled = {1}
    /\ remote = [pages |-> MaxPages, batches |-> MaxBatches, tokens |-> Tokens]
    /\ rereplicationTimeout = NoTimeoutSource

\* variant: one iterator, kept in the resender, serves every call
historyIteratorShared(c) == 1

\* historyIterator := collection.NewPagingIterator(...): a local of the call
historyIterator(c) == c

\* --------------------------------------------------------------- actions
\* entry of SendSingleWorkflowHistory up to NewPagingIterator, whose
\* constructor asks for the first page at once
SendSingleWorkflowHistory(c) ==
    /\ c \in enabled
    /\ pc[c] = "idle"
    /\ \E d \in DomainIDs, w \in WorkflowIDs, r \in RunIDs :
          /\ args' = [args EXCEPT ![c] = [domainID |-> d, workflowID |-> w, runID |-> r]]
          /\ LET overall == overallContext(rereplicationTimeout, d, now)
             IN  /\ ctx' = [ctx EXCEPT ![c] = overall]
                 /\ LogCtx(c, CtxEntry("SendSingleWorkflowHistory", now, overall))
    /\ iter' = [iter EXCEPT ![historyIterator(c)] = NilIterator]
    /\ pc' = [pc EXCEPT ![c] = "getNextPage"]
    /\ UNCHANGED <<config, record, cur, ret, trace, now>>

\* variant: the lookup's error is dropped
domainLookupFailedNever(err) == FALSE

\* if err != nil { return nil, err } after GetDomainByID
domainLookupFailed(err) == err # NoErr

\* getHistory, first half: n.domainCache.GetDomainByID(domainID); on success
\* the context of the remote RPC is made and the RPC is in flight
GetDomainByID(c) ==
    /\ pc[c] = "getNextPage"
    /\ \E err \in DomainErrors \cup {NoErr} :
          /\ Log(c, Event("GetDomainByID", args[c].domainID, err))
          /\ IF domainLookupFailed(err)
             THEN LET r == getPaginationFn(NilResponse, err)
                  IN  /\ iter' = [iter EXCEPT ![historyIterator(c)] = getNextPage(r[1], r[2], r[3])]
                      /\ pc' = [pc EXCEPT ![c] = "loop"]
                      /\ UNCHANGED ctxlog
             ELSE /\ pc' = [pc EXCEPT ![c] = "rpc"]
                  /\ LogCtx(c, CtxEntry("GetRawHistory", now, stepContext(ctx[c], now)))
                  /\ UNCHANGED iter
    /\ UNCHANGED <<config, record, args, cur, ret, now, ctx>>

Fetches(c) == SelectSeq(trace[c], LAMBDA e : e.op = "GetRawHistory")

NumFetches(c) == Len(Fetches(c))

RECURSIVE Concat(_)
Concat(ss) == IF ss = <<>> THEN <<>> ELSE Head(ss) \o Concat(Tail(ss))

\* the raw batches the remote has returned to call c so far, in order
Served(c) ==
    Concat([i \in 1 .. NumFetches(c) |-> Fetches(c)[i].res.response.HistoryBatches])

\* getHistory, second half: the remote RPC; then the closure of
\* getPaginationFn and the iterator's getNextPage take the result
GetWorkflowExecutionRawHistoryV2(c) ==
    /\ pc[c] = "rpc"
    /\ NumFetches(c) < remote.pages
    /\ \E err \in RpcErrors \cup {NoErr} :
       \E response \in IF err # NoErr THEN {NilResponse}
                       ELSE IF NumFetches(c) + 1 >= remote.pages
                            THEN Responses({NilToken}, Len(Served(c)), NumFetches(c) + 1,
                                           remote.batches)
                            ELSE Responses(remote.tokens \cup {NilToken}, Len(Served(c)),
                                           NumFetches(c) + 1, remote.batches) :
          /\ Log(c, Event("GetRawHistory", getHistoryToken(iter[historyIterator(c)].pageToken),
                          [err |-> err, response |-> response]))
          /\ LET r == getPaginationFn(response, err)
             IN  iter' = [iter EXCEPT ![historyIterator(c)] = getNextPage(r[1], r[2], r[3])]
    /\ pc' = [pc EXCEPT ![c] = "loop"]
    /\ UNCHANGED <<config, record, args, cur, ret, now, ctx, ctxlog>>

\* --------------------------------------------- the loop of the entry point
\* historyIterator.HasNext() and Next(): what the iterator does next
IteratorStep(it) ==
    IF it.pageErr # NoErr THEN "error"
    ELSE IF it.nextPageItemIndex < Len(it.pageItems) THEN "item"
    ELSE IF Len(it.pageToken) # 0 THEN "page"
    ELSE "end"

\* for historyIterator.HasNext() { result, err := historyIterator.Next() ...
\* up to the request built by createReplicationRawRequest
NextBatch(c) ==
    /\ pc[c] = "loop"
    /\ LET it == iter[historyIterator(c)]
           step == IteratorStep(it)
       IN  CASE step = "error" ->
                  /\ iter' = [iter EXCEPT ![historyIterator(c)].pageErr = NoErr]
                  /\ Return(c, it.pageErr)
                  /\ UNCHANGED cur
             [] step = "item" ->
                  LET batch == it.pageItems[it.nextPageItemIndex + 1]
                  IN  /\ iter' = [iter EXCEPT ![historyIterator(c)].nextPageItemIndex = @ + 1]
                      /\ cur' = [cur EXCEPT ![c] =
                            [request |-> createReplicationRawRequest(
                                 args[c].domainID, args[c].workflowID, args[c].runID,
                                 batch.rawEventBatch, batch.versionHistory.Items),
                             err |-> NoErr]]
                      /\ pc' = [pc EXCEPT ![c] = "apply"]
                      /\ UNCHANGED ret
             [] step = "page" ->
                  /\ pc' = [pc EXCEPT ![c] = "getNextPage"]
                  /\ UNCHANGED <<iter, cur, ret>>
             [] OTHER ->
                  /\ Return(c, NoErr)
                  /\ UNCHANGED <<iter, cur>>
    /\ UNCHANGED <<config, record, args, trace, now, ctx, ctxlog>>

\* variant: only not-found stops the loop
ClassifyApplyErrorLenient(err) ==
    CASE err = EntityNotExistsError -> "fixCurrentExecution"
      [] OTHER -> "continue"

\* switch err.(type) after sendReplicationRawRequest
ClassifyApplyError(err) ==
    CASE err = NoErr -> "continue"
      [] err = EntityNotExistsError -> "fixCurrentExecution"
      [] OTHER -> "return"

\* sendReplicationRawRequest: the context of the request is made and
\* n.historyReplicationFn(ctx, request) is called: the request is in flight
sendReplicationRawRequest(c) ==
    /\ pc[c] = "apply"
    /\ LogCtx(c, CtxEntry("Apply", now, stepContext(ctx[c], now)))
    /\ pc' = [pc EXCEPT ![c] = "applying"]
    /\ UNCHANGED <<config, record, args, iter, cur, ret, trace, now, ctx>>

\* n.historyReplicationFn returns, and the switch on its error
historyReplicationFnReturns(c) ==
    /\ pc[c] = "applying"
    /\ \E err \in ApplyErrors \cup {NoErr} :
          /\ Log(c, Event("Apply", cur[c].request, err))
          /\ LET class == ClassifyApplyError(err)
             IN  CASE class = "continue" ->
                        /\ pc' = [pc EXCEPT ![c] = "loop"]
                        /\ UNCHANGED <<cur, ret>>
                   [] class = "fixCurrentExecution" ->
                        /\ pc' = [pc EXCEPT ![c] = "gate"]
                        /\ cur' = [cur EXCEPT ![c].err = err]
                        /\ UNCHANGED ret
                   [] OTHER ->
                        /\ Return(c, err)
                        /\ UNCHANGED cur
    /\ UNCHANGED <<config, record, args, iter, now, ctx, ctxlog>>

\* ------------------------------------------------------------ repair gate
\* the invariant's verdict on the probe, given the local record
CheckOutcomes(state) ==
    {CheckResultTypeFailed, CheckResultTypeOther}
        \cup (IF state = "corrupted" THEN {CheckResultTypeCorrupted}
              ELSE {CheckResultTypeHealthy})

\* variant: no checker counts as a healthy record
skipTaskWithoutCheckerTrue == TRUE

\* if n.currentExecutionCheck == nil { return false }
skipTaskWithoutChecker == FALSE

\* switch res.CheckResultType: does fixCurrentExecution call Fix
\* variant: Fix is called whatever Check returned
invokesFixAlways(res) == TRUE

\* variant: a failed check is repaired as well
invokesFixOnFailed(res) == res \in {CheckResultTypeCorrupted, CheckResultTypeFailed}

invokesFix(res) == res = CheckResultTypeCorrupted

\* variant: a failed check is taken for a healthy one
skipTaskOnFailedCheck(res) ==
    CASE res = CheckResultTypeCorrupted -> FALSE
      [] OTHER -> TRUE

\* switch res.CheckResultType: the value fixCurrentExecution returns
skipTask(res) ==
    CASE res = CheckResultTypeCorrupted -> FALSE
      [] res = CheckResultTypeFailed -> FALSE
      [] OTHER -> TRUE

\* variant: a skipped task is reported as success
NotFoundResultNilOnSkip(skip, err) == IF skip THEN NoErr ELSE err

\* if skipTask := n.fixCurrentExecution(...); skipTask { return ErrSkipTask }; return err
NotFoundResult(skip, err) == IF skip THEN ErrSkipTask ELSE err

\* fixCurrentExecution up to and including Check and the switch on its
\* result; its return value is logged as a "fixCurrentExecution" event
fixCurrentExecution(c) ==
    /\ pc[c] = "gate"
    /\ LET execution == CurrentExecution(args[c].domainID, args[c].workflowID)
       IN  IF ~hasChecker
           THEN /\ Log(c, Event("fixCurrentExecution", execution, skipTaskWithoutChecker))
                /\ Return(c, NotFoundResult(skipTaskWithoutChecker, cur[c].err))
           ELSE \E res \in CheckOutcomes(record[<<execution.DomainID, execution.WorkflowID>>]) :
                   IF invokesFix(res)
                   THEN /\ Log(c, Event("Check", execution, res))
                        /\ pc' = [pc EXCEPT ![c] = "fix"]
                        /\ UNCHANGED ret
                   ELSE /\ Log2(c, Event("Check", execution, res),
                                Event("fixCurrentExecution", execution, skipTask(res)))
                        /\ Return(c, NotFoundResult(skipTask(res), cur[c].err))
    /\ UNCHANGED <<config, record, args, iter, cur, now, ctx, ctxlog>>

\* n.currentExecutionCheck.Fix(execution); return false
Fix(c) ==
    /\ pc[c] = "fix"
    /\ LET execution == CurrentExecution(args[c].domainID, args[c].workflowID)
           key == <<execution.DomainID, execution.WorkflowID>>
           skip == skipTask(CheckResultTypeCorrupted)
       IN  /\ Log2(c, Event("Fix", execution, record[key]),
                   Event("fixCurrentExecution", execution, skip))
           /\ \E after \in {"healthy", record[key]} :
                 record' = [record EXCEPT ![key] = after]
           /\ Return(c, NotFoundResult(skip, cur[c].err))
    /\ UNCHANGED <<config, args, iter, cur, now, ctx, ctxlog>>

\* a step of call c
CallStep(c) ==
    \/ SendSingleWorkflowHistory(c)
    \/ GetDomainByID(c)
    \/ GetWorkflowExecutionRawHistoryV2(c)
    \/ NextBatch(c)
    \/ sendReplicationRawRequest(c)
    \/ historyReplicationFnReturns(c)
    \/ fixCurrentExecution(c)
    \/ Fix(c)

Next == \E c \in Calls : CallStep(c)

Spec == Init /\ [][Next]_vars

\* the remote holds a short history, so that the clock and other calls can
\* be interleaved with every step of a call
SmallRemote == [pages |-> FewPages, batches |-> FewBatches, tokens |-> {<<1>>}]

\* ------------------------------------------------------------- progress
\* every call that can take a step eventually takes one: the goroutine
\* running it is scheduled and each collaborator it waits for returns
InitLive ==
    /\ InitCommon
    /\ enabled = {1}
    /\ remote = SmallRemote
    /\ rereplicationTimeout = NoTimeoutSource

SpecLive == InitLive /\ [][Next]_vars /\ \A c \in Calls : WF_vars(CallStep(c))

\* ---------------------------------------------------------- concurrency
\* two goroutines call SendSingleWorkflowHistory on the same resender, for
\* the same or for different workflows, and their steps interleave freely
InitConc ==
    /\ InitCommon
    /\ hasChecker
    /\ enabled = {1, 2}
    /\ remote = SmallRemote
    /\ rereplicationTimeout = NoTimeoutSource

SpecConc == InitConc /\ [][Next]_vars

\* ------------------------------------------------------ the passing of time
TimeoutSources ==
    {NoTimeoutSource}
        \cup {[configured |-> TRUE, duration |-> [d \in DomainIDs |-> x]] :
                 x \in Durations}

InitTimed ==
    /\ InitCommon
    /\ hasChecker
    /\ \A k \in DOMAIN record : record[k] = "corrupted"
    /\ enabled = {1}
    /\ remote = SmallRemote
    /\ rereplicationTimeout \in TimeoutSources

Tick ==
    /\ now + TickStep <= MaxTicks * TickStep
    /\ now' = now + TickStep
    /\ UNCHANGED <<config, record, pc, args, iter, cur, ret, trace, ctx, ctxlog>>

NextTimed == Next \/ Tick

SpecTimed == InitTimed /\ [][NextTimed]_vars

\* ------------------------------------------------- reading a call's trace
Last(s) == s[Len(s)]

Applies(c) == SelectSeq(trace[c], LAMBDA e : e.op = "Apply")
Checks(c) == SelectSeq(trace[c], LAMBDA e : e.op = "Check")
Fixes(c) == SelectSeq(trace[c], LAMBDA e : e.op = "Fix")

ErrOf(e) ==
    CASE e.op = "GetRawHistory" -> e.res.err
      [] e.op \in {"GetDomainByID", "Apply"} -> e.res
      [] OTHER -> NoErr

ErrorPositions(c) == {i \in 1 .. Len(trace[c]) : ErrOf(trace[c][i]) # NoErr}

NoCollaboratorError(c) == ErrorPositions(c) = {}

FirstError(c) ==
    LET i == CHOOSE j \in ErrorPositions(c) : \A k \in ErrorPositions(c) : j <= k
    IN  trace[c][i]

\* the blobs handed to Apply so far, in order
AppliedBlobs(c) == [i \in 1 .. Len(Applies(c)) |-> Applies(c)[i].arg.Events]

\* number of events of kind op among the first n events of the trace
CountBefore(c, op, n) ==
    Cardinality({i \in 1 .. n : trace[c][i].op = op})

\* the remote's pages end properly: the last page fetched, and only it, has an
\* empty next-page-token
PagesComplete(c) ==
    /\ NumFetches(c) >= 1
    /\ Len(Last(Fetches(c)).res.response.NextPageToken) = 0
    /\ \A i \in 1 .. NumFetches(c) - 1 :
          Len(Fetches(c)[i].res.response.NextPageToken) # 0

Probe(c) ==
    [DomainID |-> args[c].domainID, WorkflowID |-> args[c].workflowID,
     State |-> "Running"]

\* fixCurrentExecution has returned in call c, and what it returned
GateReturns(c) == SelectSeq(trace[c], LAMBDA e : e.op = "fixCurrentExecution")

GateReturned(c) == GateReturns(c) # <<>>

GateSkip(c) == GateReturns(c)[1].res

\* ------------------------------------------------------------------ claims
\* C1: when the domain lookups, the fetches and every Apply succeed, a call
\* that has returned has fetched the pages up to the first empty
\* next-page-token and no more, has applied exactly the batches the remote
\* returned, in the remote's order across page boundaries, and returned nil.
C1_AllBatchesAppliedInOrder ==
    \A c \in Calls :
       (pc[c] = "done" /\ NoCollaboratorError(c)) =>
          /\ PagesComplete(c)
          /\ AppliedBlobs(c) = Served(c)
          /\ ret[c] = NoErr

\* the scenario of two pages, three batches then one, four Apply calls
C1_Witness ==
    \E c \in Calls :
       /\ pc[c] = "done" /\ ret[c] = NoErr
       /\ NumFetches(c) = 2
       /\ Len(Fetches(c)[1].res.response.HistoryBatches) = 3
       /\ Len(Fetches(c)[2].res.response.HistoryBatches) = 1
       /\ AppliedBlobs(c) = <<1, 2, 3, 4>>

\* C2: decision table of fixCurrentExecution.  Without a checker it returns
\* skip=false and neither Check nor Fix is ever invoked.  With a checker,
\* Check is invoked once on the running-state probe of the call's
\* (domainID, workflowID); Corrupted: Fix once on that probe, skip=false;
\* Failed: no Fix, skip=false; anything else: no Fix, skip=true.
C2_RepairGateDecisionTable ==
    \A c \in Calls :
       /\ ~hasChecker => Checks(c) = <<>> /\ Fixes(c) = <<>>
       /\ GateReturned(c) =>
             IF ~hasChecker THEN GateSkip(c) = FALSE
             ELSE /\ Len(Checks(c)) = 1
                  /\ Checks(c)[1].arg = Probe(c)
                  /\ LET res == Checks(c)[1].res
                     IN  CASE res = "corrupted" ->
                                /\ Len(Fixes(c)) = 1 /\ Fixes(c)[1].arg = Probe(c)
                                /\ GateSkip(c) = FALSE
                           [] res = "failed" ->
                                Fixes(c) = <<>> /\ GateSkip(c) = FALSE
                           [] OTHER ->
                                Fixes(c) = <<>> /\ GateSkip(c) = TRUE

C2_Witness ==
    \E c \in Calls :
       /\ hasChecker /\ GateReturned(c)
       /\ Checks(c)[1].res = "corrupted"
       /\ Len(Fixes(c)) = 1
       /\ GateSkip(c) = FALSE

\* C3: when the remote fetch reports entity-not-found and a checker is
\* configured whose verdict on the record is Healthy, the call returns
\* ErrSkipTask and Fix is never invoked.
C3_FetchNotFoundReturnsSkip ==
    \A c \in Calls :
       ( /\ pc[c] = "done"
         /\ hasChecker
         /\ record[<<args[c].domainID, args[c].workflowID>>] = "healthy"
         /\ \A i \in 1 .. Len(Checks(c)) : Checks(c)[i].res = "healthy"
         /\ NumFetches(c) >= 1
         /\ Last(Fetches(c)).res.err = EntityNotExistsError )
       => (ret[c] = ErrSkipTask /\ Fixes(c) = <<>>)

\* C4: once fixCurrentExecution has returned, nothing more is fetched or
\* applied: its return is the last event of the call, which has returned
\* ErrSkipTask when it said skip=true and the not-found error of the Apply
\* that led to it when it said skip=false.
C4_SkipShortCircuit ==
    \A c \in Calls :
       \A i \in 1 .. Len(trace[c]) :
          trace[c][i].op = "fixCurrentExecution" =>
             /\ i = Len(trace[c])
             /\ pc[c] = "done"
             /\ Last(Applies(c)).res = EntityNotExistsError
             /\ ret[c] = IF trace[c][i].res THEN "ErrSkipTask"
                         ELSE Last(Applies(c)).res

C4_Witness ==
    \E c \in Calls :
       /\ GateReturned(c) /\ GateSkip(c)
       /\ Len(Applies(c)) = 2
       /\ Len(Last(Fetches(c)).res.response.NextPageToken) # 0
       /\ ret[c] = ErrSkipTask

\* C5: an Apply error other than entity-not-found ends the call at once: it
\* is the last event of the call (no Apply, fetch, Check or Fix follows) and
\* the call has returned that error.
C5_FailFastOnApplyError ==
    \A c \in Calls :
       \A i \in 1 .. Len(trace[c]) :
          ( /\ trace[c][i].op = "Apply"
            /\ trace[c][i].res \notin {"nil", "EntityNotExistsError"} ) =>
             /\ i = Len(trace[c])
             /\ pc[c] = "done"
             /\ ret[c] = trace[c][i].res

C5_Witness ==
    \E c \in Calls :
       /\ pc[c] = "done" /\ ret[c] = "ApplyRejected"
       /\ Len(Applies(c)) = 2
       /\ Len(Applies(c)) < Len(Served(c))
       /\ Len(Last(Fetches(c)).res.response.NextPageToken) # 0

NumRoundTrips(c) == CountBefore(c, "GetDomainByID", Len(trace[c]))

\* C7: the first fetch carries the nil token; every later fetch carries the
\* non-empty next-page-token of the page before it, unchanged, so nothing is
\* fetched after a page with an empty token.  A round trip whose lookup
\* succeeded issues its RPC.  A call that has returned after a page with a
\* non-empty token whose batches were all applied with success has begun
\* exactly one more round trip (which then failed at the lookup, the RPC of
\* an answered round trip being a later page); a call that returns without
\* any failure has fetched up to the empty token.
C7_PaginationFollowsToken ==
    \A c \in Calls :
       /\ NumFetches(c) >= 1 => Fetches(c)[1].arg = <<>>
       /\ \A i \in 2 .. NumFetches(c) :
             /\ Fetches(c)[i - 1].res.err = NoErr
             /\ Len(Fetches(c)[i - 1].res.response.NextPageToken) # 0
             /\ Fetches(c)[i].arg = Fetches(c)[i - 1].res.response.NextPageToken
       /\ NumRoundTrips(c) \in {NumFetches(c), NumFetches(c) + 1}
       /\ \A p \in 1 .. Len(trace[c]) :
             (trace[c][p].op = "GetDomainByID" /\ trace[c][p].res = NoErr) =>
                IF p = Len(trace[c]) THEN pc[c] = "rpc"
                ELSE trace[c][p + 1].op = "GetRawHistory"
       /\ ( /\ pc[c] = "done"
            /\ NumFetches(c) >= 1
            /\ Last(Fetches(c)).res.err = NoErr
            /\ Len(Last(Fetches(c)).res.response.NextPageToken) # 0
            /\ \A i \in 1 .. Len(Applies(c)) : Applies(c)[i].res = NoErr
            /\ Len(Applies(c)) = Len(Served(c)) )
          => /\ NumRoundTrips(c) = NumFetches(c) + 1
             /\ Last(trace[c]).op = "GetDomainByID"
       /\ (pc[c] = "done" /\ NoCollaboratorError(c)) => PagesComplete(c)

C7_Witness ==
    \E c \in Calls :
       /\ pc[c] = "done" /\ ret[c] = NoErr
       /\ NumFetches(c) = 2
       /\ Fetches(c)[1].res.response.NextPageToken = <<2>>
       /\ Fetches(c)[1].res.response.HistoryBatches = <<>>
       /\ Fetches(c)[2].arg = <<2>>

\* batches the remote had returned before position p of the trace
ServedBefore(c, p) ==
    Len(Concat([i \in 1 .. CountBefore(c, "GetRawHistory", p - 1) |->
                   Fetches(c)[i].res.response.HistoryBatches]))

\* C8: a page is requested only when every batch of the pages before it has
\* been applied, and a batch is applied only when every batch before it has
\* been applied with success; batches go out in the remote's order.
C8_StrictInterleaving ==
    \A c \in Calls :
       \A p \in 1 .. Len(trace[c]) :
          LET e == trace[c][p]
              applied == CountBefore(c, "Apply", p - 1)
              allOk == \A q \in 1 .. p - 1 :
                          trace[c][q].op = "Apply" => trace[c][q].res = NoErr
          IN  /\ e.op \in {"GetDomainByID", "GetRawHistory"} =>
                    allOk /\ applied = ServedBefore(c, p)
              /\ e.op = "Apply" =>
                    /\ allOk
                    /\ applied < ServedBefore(c, p)
                    /\ e.arg.Events = Served(c)[applied + 1]

C8_Witness ==
    \E c \in Calls :
       /\ NumFetches(c) = 2
       /\ Len(Fetches(c)[1].res.response.HistoryBatches) = 2
       /\ Len(Applies(c)) = 3
       /\ Last(trace[c]).op = "Apply"

\* C9: a call returns nil only when no collaborator failed, the pages were
\* fetched up to the empty token and every batch was applied.  Otherwise
\* exactly one collaborator call failed and the call returns its error as it
\* is, except that a not-found error of Apply is replaced by ErrSkipTask when
\* fixCurrentExecution said skip.
C9_NoErrorSwallowed ==
    \A c \in Calls :
       pc[c] = "done" =>
          IF NoCollaboratorError(c)
          THEN ret[c] = NoErr /\ PagesComplete(c) /\ AppliedBlobs(c) = Served(c)
          ELSE /\ Cardinality(ErrorPositions(c)) = 1
               /\ IF GateReturned(c) /\ GateSkip(c)
                  THEN /\ ret[c] = "ErrSkipTask"
                       /\ FirstError(c).op = "Apply"
                       /\ ErrOf(FirstError(c)) = "EntityNotExistsError"
                  ELSE ret[c] = ErrOf(FirstError(c))

C9_Witness ==
    \E c \in Calls :
       /\ pc[c] = "done" /\ ret[c] = "RpcTimeout"
       /\ NumFetches(c) = 2
       /\ Len(Applies(c)) = 1

\* C10: a failed domain lookup or a failed remote RPC is the last collaborator
\* call of the call: no RPC follows the failed lookup, no Apply and no fetch
\* follow either, and the call returns that error.
C10_FetchErrorTerminates ==
    \A c \in Calls :
       \A i \in 1 .. Len(trace[c]) :
          ( /\ trace[c][i].op \in {"GetDomainByID", "GetRawHistory"}
            /\ ErrOf(trace[c][i]) # NoErr ) =>
             /\ i = Len(trace[c])
             /\ pc[c] \in {"loop", "done"}
             /\ pc[c] = "done" => ret[c] = ErrOf(trace[c][i])

\* the lookup of the second round trip fails
C10_Witness ==
    \E c \in Calls :
       /\ pc[c] = "done" /\ ret[c] = "DomainNotFound"
       /\ NumFetches(c) = 1
       /\ Len(Applies(c)) = 2

\* ---------------------------------------------------------------- C11
Min(a, b) == IF a < b THEN a ELSE b

CtxOf(c, op) == SelectSeq(ctxlog[c], LAMBDA e : e.op = op)

\* C11: a call has an overall deadline exactly when the duration source is
\* configured and gives a positive duration for the domain, and then it is
\* the entry time plus that duration.  Every remote RPC and every Apply gets
\* a context of its own, made when it is called, whose deadline is that time
\* plus resendContextTimeout, or the overall deadline when that is earlier.
C11_DeadlineComposition ==
    \A c \in Calls :
       pc[c] # "idle" =>
          LET src == rereplicationTimeout
              entry == ctxlog[c][1]
              bounded == src.configured /\ src.duration[args[c].domainID] > 0
          IN  /\ entry.op = "SendSingleWorkflowHistory"
              /\ ctx[c] = entry.ctx
              /\ ctx[c].hasDeadline <=> bounded
              /\ bounded => ctx[c].deadline = entry.at + src.duration[args[c].domainID]
              /\ Len(CtxOf(c, "GetRawHistory"))
                    = NumFetches(c) + (IF pc[c] = "rpc" THEN 1 ELSE 0)
              /\ Len(CtxOf(c, "Apply"))
                    = Len(Applies(c)) + (IF pc[c] = "applying" THEN 1 ELSE 0)
              /\ \A i \in 2 .. Len(ctxlog[c]) :
                    LET e == ctxlog[c][i]
                    IN  /\ e.op \in {"GetRawHistory", "Apply"}
                        /\ e.at >= entry.at
                        /\ e.ctx.hasDeadline
                        /\ e.ctx.deadline =
                              IF bounded
                              THEN Min(e.at + resendContextTimeout, entry.at + src.duration[args[c].domainID])
                              ELSE e.at + resendContextTimeout

\* an Apply whose own timeout is the earlier one and a fetch, later in the
\* same call, for which the overall deadline is
C11_Witness ==
    \E c \in Calls :
       /\ ctx[c].hasDeadline
       /\ \E i, j \in 2 .. Len(ctxlog[c]) :
             /\ i < j
             /\ ctxlog[c][i].op = "Apply"
             /\ ctxlog[c][i].ctx.deadline < ctx[c].deadline
             /\ ctxlog[c][j].op = "GetRawHistory"
             /\ ctxlog[c][j].ctx.deadline = ctx[c].deadline
             /\ ctxlog[c][j].at + resendContextTimeout > ctx[c].deadline

\* ---------------------------------------------------------------- C13
\* for every batch the remote has returned to call c so far, in order, the
\* version-history items of the page it came in
ServedItems(c) ==
    Concat([i \in 1 .. NumFetches(c) |->
              [j \in 1 .. Len(Fetches(c)[i].res.response.HistoryBatches) |->
                   Fetches(c)[i].res.response.VersionHistory.Items]])

\* C13: the k-th request handed to Apply is made of the call's domainID,
\* workflowID and runID, the k-th raw batch the remote returned and the
\* version-history items of the page that batch came in, and of nothing
\* else; building it again from the same inputs gives the same request.
C13_RequestIsFunctionOfBatch ==
    \A c \in Calls :
       \A k \in 1 .. Len(Applies(c)) :
          LET request == Applies(c)[k].arg
          IN  /\ k <= Len(Served(c))
              /\ request =
                    [DomainUUID |-> args[c].domainID,
                     WorkflowExecution |-> [WorkflowId |-> args[c].workflowID,
                                            RunId |-> args[c].runID],
                     Events |-> Served(c)[k],
                     VersionHistoryItems |-> ServedItems(c)[k]]
              /\ request =
                    createReplicationRawRequest(args[c].domainID, args[c].workflowID,
                                                args[c].runID, request.Events,
                                                request.VersionHistoryItems)

\* two batches of the first page and one of the second have been applied
C13_Witness ==
    \E c \in Calls :
       /\ Len(Applies(c)) >= 3
       /\ Len(Fetches(c)[1].res.response.HistoryBatches) = 2
       /\ Applies(c)[1].arg.VersionHistoryItems = Applies(c)[2].arg.VersionHistoryItems
       /\ Applies(c)[3].arg.VersionHistoryItems # Applies(c)[2].arg.VersionHistoryItems
       /\ args[c].workflowID # args[c].runID

\* ---------------------------------------------------------------- C14
\* C14: within one call Check is invoked at most once and Fix at most once;
\* Check comes only directly after an Apply that returned entity-not-found,
\* Fix only directly after that call's Check returned Corrupted; and once
\* Check has been invoked the call makes no domain lookup, no fetch and no
\* Apply any more: it can only run Fix and return.
C14_GateRunsOnce ==
    \A c \in Calls :
       LET t == trace[c]
       IN  /\ Len(Checks(c)) <= 1
           /\ Len(Fixes(c)) <= 1
           /\ \A i \in 1 .. Len(t) :
                 /\ t[i].op = "Check" =>
                       /\ i > 1
                       /\ t[i - 1].op = "Apply"
                       /\ t[i - 1].res = EntityNotExistsError
                       /\ \A j \in i + 1 .. Len(t) :
                             t[j].op \in {"Fix", "fixCurrentExecution"}
                 /\ t[i].op = "Fix" =>
                       /\ i > 1
                       /\ t[i - 1].op = "Check"
                       /\ t[i - 1].res = CheckResultTypeCorrupted
                       /\ t[i - 1].arg = t[i].arg
           /\ Checks(c) # <<>> => pc[c] \in {"fix", "done"}
           /\ pc[c] = "fix" => Last(t).op = "Check"

\* a call that applied a batch, was told entity-not-found on the next one,
\* checked, repaired and returned
C14_Witness ==
    \E c \in Calls :
       /\ pc[c] = "done"
       /\ Len(Applies(c)) >= 2
       /\ Len(Checks(c)) = 1
       /\ Len(Fixes(c)) = 1
       /\ ret[c] = EntityNotExistsError

\* ---------------------------------------------------------------- C15
\* C15: every call that has been entered eventually returns, when every
\* collaborator call returns and the remote ends its pages with an empty
\* next-page-token, pages without batches included.
C15_EveryCallReturns ==
    \A c \in Calls : (pc[c] # "idle") ~> (pc[c] = "done")

\* a call that returned nil after a first page with no batch and a token
\* and a last page with an empty token
C15_Witness ==
    \E c \in Calls :
       /\ pc[c] = "done"
       /\ ret[c] = NoErr
       /\ NumFetches(c) = 2
       /\ Fetches(c)[1].res.response.HistoryBatches = <<>>
       /\ Len(Fetches(c)[1].res.response.NextPageToken) # 0
       /\ PagesComplete(c)

\* ---------------------------------------------------------------- C12
\* call c has handed a request to historyReplicationFn that has not returned
InFlight(c) == pc[c] = "applying"

\* the workflow execution a request is for
ExecutionOf(request) ==
    <<request.DomainUUID, request.WorkflowExecution.WorkflowId,
      request.WorkflowExecution.RunId>>

\* the workflow execution call c was invoked for
ExecutionOfCall(c) == <<args[c].domainID, args[c].workflowID, args[c].runID>>

\* C12 as stated: in every interleaving of calls, at most one Apply request
\* is in flight at a time for one workflow execution.
C12_OneInFlightPerExecution ==
    \A c, o \in Calls :
       /\ c # o
       /\ InFlight(c)
       /\ InFlight(o)
       => ExecutionOf(cur[c].request) # ExecutionOf(cur[o].request)

\* C12, amended: each call hands its requests to Apply one after the other,
\* the next only when the one before has returned, and every request is for
\* the execution the call was invoked for; so two requests for one execution
\* are in flight together only when two calls for that execution run
\* together, and calls for different executions never have more than one
\* request in flight per execution.
C12_SequentialWithinCall ==
    /\ \A c \in Calls :
          /\ Len(CtxOf(c, "Apply")) - Len(Applies(c)) = (IF InFlight(c) THEN 1 ELSE 0)
          /\ InFlight(c) => ExecutionOf(cur[c].request) = ExecutionOfCall(c)
    /\ \A c, o \in Calls :
          /\ c # o
          /\ InFlight(c)
          /\ InFlight(o)
          /\ ExecutionOf(cur[c].request) = ExecutionOf(cur[o].request)
          => ExecutionOfCall(c) = ExecutionOfCall(o)

\* two calls for different executions, each with a request in flight, one
\* of them its second
C12_Witness ==
    \E c, o \in Calls :
       /\ ExecutionOfCall(c) # ExecutionOfCall(o)
       /\ InFlight(c)
       /\ InFlight(o)
       /\ Len(Applies(c)) >= 1

\* ---------------------------------------------------------------- C16
\* the (domainID, workflowID) whose current-execution record call c probes
RecordKey(c) == <<args[c].domainID, args[c].workflowID>>

\* C16 as stated: Fix is invoked on a current-execution record only while
\* that record is still corrupted.
C16_FixOnlyWhileCorrupted ==
    \A c \in Calls :
       \A i \in 1 .. Len(Fixes(c)) : Fixes(c)[i].res = "corrupted"

\* C16, amended: Fix is invoked only by a call whose own Check, just before,
\* returned Corrupted for the same execution; no lock is held in between,
\* and the record Fix is invoked on is no longer corrupted only when another
\* call for the same (domainID, workflowID) has invoked Fix as well.
C16_FixFollowsOwnCheck ==
    \A c \in Calls :
       \A i \in 1 .. Len(trace[c]) :
          trace[c][i].op = "Fix" =>
             /\ i > 1
             /\ trace[c][i - 1].op = "Check"
             /\ trace[c][i - 1].res = CheckResultTypeCorrupted
             /\ trace[c][i - 1].arg = trace[c][i].arg
             /\ trace[c][i].arg = CurrentExecution(args[c].domainID, args[c].workflowID)
             /\ trace[c][i].res # "corrupted" =>
                   \E o \in Calls \ {c} :
                      /\ RecordKey(o) = RecordKey(c)
                      /\ Fixes(o) # <<>>

\* two calls for one workflow, both told Corrupted; the first repaired the
\* record, the second invoked Fix on the repaired record
C16_Witness ==
    \E c, o \in Calls :
       /\ c # o
       /\ RecordKey(c) = RecordKey(o)
       /\ Fixes(c) # <<>>
       /\ Fixes(c)[1].res = "corrupted"
       /\ Fixes(o) # <<>>
       /\ Fixes(o)[1].res = "healthy"
       /\ Checks(o)[1].res = CheckResultTypeCorrupted

\* ---------------------------------------------------------------- C17
\* what the collaborators returned to call c, in the order they returned it
Inputs(c) ==
    LET calls == SelectSeq(trace[c], LAMBDA e : e.op # "fixCurrentExecution")
    IN  [i \in 1 .. Len(calls) |-> [op |-> calls[i].op, res |-> calls[i].res]]

AloneStart ==
    [pc |-> "getNextPage", iter |-> NilIterator, request |-> NoRequest, err |-> NoErr,
     tokens |-> <<>>, requests |-> <<>>, ret |-> NotReturned]

\* SendSingleWorkflowHistory(a.domainID, a.workflowID, a.runID) run by itself
\* on the collaborator results ins, from the point st: the fetch tokens it
\* sends, the requests it gets applied and what it returns, up to the point
\* where it waits for a result that ins does not hold
RECURSIVE Alone(_, _, _)
Alone(a, st, ins) ==
    CASE st.pc = "loop" ->
            LET step == IteratorStep(st.iter)
            IN  CASE step = "error" ->
                       Alone(a, [st EXCEPT !.pc = "done", !.ret = st.iter.pageErr], ins)
                  [] step = "item" ->
                       LET batch == st.iter.pageItems[st.iter.nextPageItemIndex + 1]
                       IN  Alone(a, [st EXCEPT
                                       !.iter.nextPageItemIndex = @ + 1,
                                       !.request = createReplicationRawRequest(
                                           a.domainID, a.workflowID, a.runID,
                                           batch.rawEventBatch, batch.versionHistory.Items),
                                       !.pc = "applying"], ins)
                  [] step = "page" -> Alone(a, [st EXCEPT !.pc = "getNextPage"], ins)
                  [] OTHER -> Alone(a, [st EXCEPT !.pc = "done", !.ret = NoErr], ins)
      [] st.pc = "gate" /\ ~hasChecker ->
            Alone(a, [st EXCEPT !.pc = "done",
                                !.ret = NotFoundResult(skipTaskWithoutChecker, st.err)], ins)
      [] st.pc = "done" \/ ins = <<>> -> st
      [] st.pc = "getNextPage" /\ Head(ins).op = "GetDomainByID" ->
            IF domainLookupFailed(Head(ins).res)
            THEN LET r == getPaginationFn(NilResponse, Head(ins).res)
                 IN  Alone(a, [st EXCEPT !.iter = getNextPage(r[1], r[2], r[3]),
                                         !.pc = "loop"], Tail(ins))
            ELSE Alone(a, [st EXCEPT !.pc = "rpc"], Tail(ins))
      [] st.pc = "rpc" /\ Head(ins).op = "GetRawHistory" ->
            LET r == getPaginationFn(Head(ins).res.response, Head(ins).res.err)
            IN  Alone(a, [st EXCEPT
                            !.tokens = Append(@, getHistoryToken(st.iter.pageToken)),
                            !.iter = getNextPage(r[1], r[2], r[3]),
                            !.pc = "loop"], Tail(ins))
      [] st.pc = "applying" /\ Head(ins).op = "Apply" ->
            LET err == Head(ins).res
                class == ClassifyApplyError(err)
                applied == [st EXCEPT !.requests = Append(@, st.request)]
            IN  CASE class = "continue" ->
                       Alone(a, [applied EXCEPT !.pc = "loop"], Tail(ins))
                  [] class = "fixCurrentExecution" ->
                       Alone(a, [applied EXCEPT !.pc = "gate", !.err = err], Tail(ins))
                  [] OTHER ->
                       Alone(a, [applied EXCEPT !.pc = "done", !.ret = err], Tail(ins))
      [] st.pc = "gate" /\ Head(ins).op = "Check" ->
            IF invokesFix(Head(ins).res)
            THEN Alone(a, [st EXCEPT !.pc = "fix"], Tail(ins))
            ELSE Alone(a, [st EXCEPT
                             !.pc = "done",
                             !.ret = NotFoundResult(skipTask(Head(ins).res), st.err)],
                       Tail(ins))
      [] st.pc = "fix" /\ Head(ins).op = "Fix" ->
            Alone(a, [st EXCEPT
                        !.pc = "done",
                        !.ret = NotFoundResult(skipTask(CheckResultTypeCorrupted), st.err)],
                  Tail(ins))
      [] OTHER -> [st EXCEPT !.pc = "never"]

\* the tokens call c has sent to the remote so far
FetchTokens(c) == [i \in 1 .. NumFetches(c) |-> Fetches(c)[i].arg]

\* the requests of call c that Apply has returned from so far
AppliedRequests(c) == [i \in 1 .. Len(Applies(c)) |-> Applies(c)[i].arg]

\* C17: whatever other calls do in between, the fetch tokens a call sends,
\* the requests it hands to Apply and the value it returns are those the
\* call produces when it runs alone and its collaborators return the same
\* results.
C17_SameAsAlone ==
    \A c \in Calls :
       pc[c] # "idle" =>
          LET alone == Alone(args[c], AloneStart, Inputs(c))
          IN  /\ alone.pc # "never"
              /\ FetchTokens(c) = alone.tokens
              /\ AppliedRequests(c) = alone.requests
              /\ InFlight(c) => alone.pc = "applying" /\ cur[c].request = alone.request
              /\ pc[c] = "done" => alone.pc = "done" /\ ret[c] = alone.ret
              /\ pc[c] = "getNextPage" => alone.pc = "getNextPage"
              /\ pc[c] = "rpc" => alone.pc = "rpc"

\* two calls for different workflows that ran side by side: each fetched
\* two pages and had a batch applied before the other returned, and one
\* returned nil and the other an error
C17_Witness ==
    \E c, o \in Calls :
       /\ args[c].workflowID # args[o].workflowID
       /\ pc[c] = "done"
       /\ pc[o] = "done"
       /\ ret[c] = NoErr
       /\ ret[o] # NoErr
       /\ NumFetches(c) = 2
       /\ NumFetches(o) = 2
       /\ Len(Applies(c)) >= 1
       /\ Len(Applies(o)) >= 1

====
